---- MODULE Spec2Model ----
(***************************************************************************)
(* spiketools: time-indexed extraction (utils/extract.py) and spike-time   *)
(* simulation (sim/times.py), as a state machine of single API calls.      *)
(*                                                                         *)
(* Times and data values are integers (a fixed-point view of the float     *)
(* arrays).  A python Optional is a sequence: <<>> is None, <<x>> is x.    *)
(* A numpy array is a record [shape, rows]: rows always holds the          *)
(* atleast_2d view of the data, shape is the real shape (<<>> for a 0-d    *)
(* scalar, <<n>> for 1-d, <<r, n>> for 2-d).  Indices are 0-based as in    *)
(* python; TLA+ sequence positions are index + 1.                          *)
(***************************************************************************)
EXTENDS Integers, Sequences, FiniteSets, TLC

VARIABLES op, args, ret, exc, prev

vars == <<op, args, ret, exc, prev>>

\* ---------------------------------------------------------------- bounds

\* Longest times / spikes / data array.
MaxLen == 2

\* Largest time stamp; times are drawn from 0..MaxT.
MaxT == 3

\* Longest list of query timepoints.
MaxQ == 2

TimeVals == 0..MaxT

\* Largest spike time given to drop_range / reinstate_range.
MaxSpikeT == 4

SpikeVals == 0..MaxSpikeT


\* ------------------------------------------------------------ python / numpy

None == <<>>

Some(x) == <<x>>

\* Python truthiness of an optional number: None and 0 are both falsy.
Truthy(o) == o # None /\ o[1] # 0

\* np.nan in a float array.
NaN == -99

Abs(x) == IF x < 0 THEN 0 - x ELSE x

SeqsUpTo(S, lo, hi) == UNION {[1..k -> S] : k \in lo..hi}

IsSorted(s) == \A i \in 1..(Len(s) - 1) : s[i] <= s[i + 1]

\* data[mask] for a 1-d array and a boolean mask of the same length.
RECURSIVE BoolIndex(_, _)
BoolIndex(data, mask) ==
    IF data = <<>> THEN <<>>
    ELSE (IF Head(mask) THEN <<Head(data)>> ELSE <<>>)
             \o BoolIndex(Tail(data), Tail(mask))

\* np.where(mask)[0]: the 0-based positions at which mask is true, ascending.
RECURSIVE WhereFrom(_, _)
WhereFrom(mask, i) ==
    IF i > Len(mask) THEN <<>>
    ELSE (IF mask[i] THEN <<i - 1>> ELSE <<>>) \o WhereFrom(mask, i + 1)

Where(mask) == WhereFrom(mask, 1)

\* ndarray.argmin() of a non-empty 1-d array: a linear scan that keeps the
\* first position holding the minimum (1-based here).
RECURSIVE ArgMinScan(_, _, _)
ArgMinScan(d, i, best) ==
    IF i > Len(d) THEN best
    ELSE ArgMinScan(d, i + 1, IF d[i] < d[best] THEN i ELSE best)

\* Mutant of ArgMin: the last position holding the minimum instead of the first.
ArgMin_last(d) ==
    (CHOOSE i \in 1..Len(d) :
        /\ \A j \in 1..Len(d) : d[i] <= d[j]
        /\ \A j \in (i + 1)..Len(d) : d[j] > d[i]) - 1

ArgMin(d) == ArgMinScan(d, 2, 1) - 1

\* Python / numpy element access with a possibly negative 0-based index.
PyIndex(row, i) == IF i < 0 THEN row[Len(row) + 1 + i] ELSE row[i + 1]

Arr0(x) == [shape |-> <<>>, rows |-> << <<x>> >>]

Arr1(s) == [shape |-> <<Len(s)>>, rows |-> <<s>>]

Arr2(rs) == [shape |-> <<Len(rs), Len(rs[1])>>, rows |-> rs]

NDim(a) == Len(a.shape)

\* np.atleast_2d(a).shape[0]
NRows(a) == Len(a.rows)

\* len of the last axis
NCols(a) == Len(a.rows[1])

\* values.take(indices=idx, axis=-1) for a scalar idx: drops the last axis.
TakeScalar(values, idx) ==
    IF NDim(values) = 1 THEN Arr0(PyIndex(values.rows[1], idx))
    ELSE Arr1([r \in 1..NRows(values) |-> PyIndex(values.rows[r], idx)])

\* values.take(indices=inds, axis=-1) for a 1-d index array: the last axis
\* becomes len(inds) long.
TakeArray(values, inds) ==
    [shape |-> IF NDim(values) = 1 THEN <<Len(inds)>>
               ELSE <<NRows(values), Len(inds)>>,
     rows  |-> [r \in 1..NRows(values) |->
                   [k \in 1..Len(inds) |-> PyIndex(values.rows[r], inds[k])]]]

\* np.squeeze of a 2-d array: every axis of length 1 is removed.
Squeeze(a) ==
    LET r == a.shape[1]
        n == a.shape[2]
    IN  IF r = 1 /\ n = 1 THEN Arr0(a.rows[1][1])
        ELSE IF r = 1 THEN Arr1(a.rows[1])
        ELSE IF n = 1 THEN Arr1([i \in 1..r |-> a.rows[i][1]])
        ELSE a

\* ------------------------------------------------------------ Range Selector

\* Mutant of create_mask: the upper bound is exclusive.
create_mask_exclusive(data, min_value, max_value) ==
    [i \in 1..Len(data) |->
        /\ (min_value = None \/ data[i] >= min_value[1])
        /\ (max_value = None \/ data[i] < max_value[1])]

\* extract.py create_mask: element-wise min_value <= x <= max_value, a bound
\* of None standing for -inf / +inf.
create_mask(data, min_value, max_value) ==
    [i \in 1..Len(data) |->
        /\ (min_value = None \/ data[i] >= min_value[1])
        /\ (max_value = None \/ data[i] <= max_value[1])]

\* extract.py get_range: mask, select, then subtract reset when it is truthy.
get_range(data, min_value, max_value, reset) ==
    LET mask == create_mask(data, min_value, max_value)
        sel  == BoolIndex(data, mask)
    IN  IF Truthy(reset) THEN [i \in 1..Len(sel) |-> sel[i] - reset[1]]
        ELSE sel

\* ------------------------------------------------------ Nearest-Time Locator

\* extract.py get_ind_by_time, for non-empty times (argmin of an empty array
\* raises ValueError, see CallGetIndByTime).
get_ind_by_time(times, timepoint, threshold) ==
    LET ind == ArgMin([i \in 1..Len(times) |-> Abs(times[i] - timepoint)])
    IN  IF Truthy(threshold)
        THEN IF Abs(times[ind + 1] - timepoint) > threshold[1] THEN -1 ELSE ind
        ELSE ind

\* Mutant of get_inds_by_times: drop_null keeps inds > 0, losing index 0.
get_inds_by_times_positive(times, timepoints, threshold, drop_null) ==
    LET inds == [k \in 1..Len(timepoints) |->
                    get_ind_by_time(times, timepoints[k], threshold)]
    IN  IF drop_null
        THEN BoolIndex(inds, [k \in 1..Len(inds) |-> inds[k] > 0])
        ELSE inds

\* extract.py get_inds_by_times: the locator per query, in query order, then
\* inds[inds >= 0] when drop_null.
get_inds_by_times(times, timepoints, threshold, drop_null) ==
    LET inds == [k \in 1..Len(timepoints) |->
                    get_ind_by_time(times, timepoints[k], threshold)]
    IN  IF drop_null
        THEN BoolIndex(inds, [k \in 1..Len(inds) |-> inds[k] >= 0])
        ELSE inds

\* --------------------------------------------------- Value-by-Time Resolver

\* extract.py get_value_by_time: the value(s) at the located index, or np.nan.
get_value_by_time(times, values, timepoint, threshold) ==
    LET idx == get_ind_by_time(times, timepoint, threshold)
    IN  IF idx >= 0 THEN TakeScalar(values, idx) ELSE Arr0(NaN)

\* Mutant of get_values_by_times: with drop_null the values are taken one
\* sample too early (index - 1).
get_values_by_times_shifted(times, values, timepoints, threshold, drop_null) ==
    LET inds == get_inds_by_times(times, timepoints, threshold, drop_null)
    IN  IF drop_null THEN TakeArray(values, [k \in 1..Len(inds) |-> inds[k] - 1])
        ELSE LET mask  == [k \in 1..Len(inds) |-> inds[k] >= 0]
                 cols  == Where(mask)
                 taken == TakeArray(values, BoolIndex(inds, mask))
                 full  == [shape |-> <<NRows(values), Len(timepoints)>>,
                           rows  |-> [r \in 1..NRows(values) |->
                              [j \in 1..Len(timepoints) |->
                                 IF \E k \in 1..Len(cols) : cols[k] = j - 1
                                 THEN taken.rows[r][CHOOSE k \in 1..Len(cols) :
                                                        cols[k] = j - 1]
                                 ELSE NaN]]]
             IN  Squeeze(full)

\* extract.py get_values_by_times.  With drop_null the surviving indices are
\* taken along the last axis.  Otherwise a NaN array of shape
\* [rows, len(timepoints)] is filled at the columns np.where(mask)[0] with
\* the values taken at inds[mask], and the result is squeezed.
get_values_by_times(times, values, timepoints, threshold, drop_null) ==
    LET inds == get_inds_by_times(times, timepoints, threshold, drop_null)
    IN  IF drop_null THEN TakeArray(values, inds)
        ELSE LET mask  == [k \in 1..Len(inds) |-> inds[k] >= 0]
                 cols  == Where(mask)
                 taken == TakeArray(values, BoolIndex(inds, mask))
                 full  == [shape |-> <<NRows(values), Len(timepoints)>>,
                           rows  |-> [r \in 1..NRows(values) |->
                              [j \in 1..Len(timepoints) |->
                                 IF \E k \in 1..Len(cols) : cols[k] = j - 1
                                 THEN taken.rows[r][CHOOSE k \in 1..Len(cols) :
                                                        cols[k] = j - 1]
                                 ELSE NaN]]]
             IN  Squeeze(full)

\* Mutant of get_values_by_time_range: the mask is applied to the times only,
\* the values are returned whole.
get_values_by_time_range_unpaired(times, values, t_min, t_max) ==
    LET select == [i \in 1..Len(times) |-> times[i] >= t_min /\ times[i] <= t_max]
    IN  <<BoolIndex(times, select), values>>

\* extract.py get_values_by_time_range: the pair (times[select], values taken
\* at np.where(select)[0] along the last axis).
get_values_by_time_range(times, values, t_min, t_max) ==
    LET select == [i \in 1..Len(times) |-> times[i] >= t_min /\ times[i] <= t_max]
    IN  <<BoolIndex(times, select), TakeArray(values, Where(select))>>

\* np.min of a non-empty 1-d array: a linear scan keeping the smallest value.
RECURSIVE MinScan(_, _, _)
MinScan(d, i, least) ==
    IF i > Len(d) THEN least
    ELSE MinScan(d, i + 1, IF d[i] < least THEN d[i] ELSE least)

\* Mutant of threshold_spikes_by_times: a spike exactly threshold away is kept.
threshold_spikes_by_times_inclusive(spikes, times, threshold) ==
    LET mask == [ind \in 1..Len(spikes) |->
                    LET d == [i \in 1..Len(times) |-> Abs(times[i] - spikes[ind])]
                    IN  MinScan(d, 2, d[1]) <= threshold]
    IN  BoolIndex(spikes, mask)

\* extract.py threshold_spikes_by_times: per spike, the smallest distance to
\* a time sample must be strictly below threshold (times non-empty).
threshold_spikes_by_times(spikes, times, threshold) ==
    LET mask == [ind \in 1..Len(spikes) |->
                    LET d == [i \in 1..Len(times) |-> Abs(times[i] - spikes[ind])]
                    IN  MinScan(d, 2, d[1]) < threshold]
    IN  BoolIndex(spikes, mask)

\* utils/options.py get_comp_func: 'greater' compares with >, 'less' with <.
get_comp_func(comp_type, value, threshold) ==
    IF comp_type = "greater" THEN value > threshold ELSE value < threshold

\* extract.py threshold_spikes_by_values for 1-d values.  The resolved values
\* come squeezed from get_values_by_times: for two or more spikes (or none)
\* they are 1-d and the two boolean selections keep the spikes 1-d; for a
\* single spike they are 0-d, ~np.isnan gives a scalar bool, and spikes[bool]
\* is a 2-d array of shape (1, 1) or (0, 1), which the second selection
\* filters along its first axis.
threshold_spikes_by_values(spikes, times, values, data_threshold, time_threshold, comp_type) ==
    LET resolved == get_values_by_times(times, Arr1(values), spikes,
                                        time_threshold, FALSE)
    IN  IF NDim(resolved) = 0
        THEN LET v    == resolved.rows[1][1]
                 keep == v # NaN /\ get_comp_func(comp_type, v, data_threshold)
             IN  [shape |-> <<IF keep THEN 1 ELSE 0, 1>>,
                  rows  |-> IF keep THEN <<spikes>> ELSE <<>>]
        ELSE LET vals   == resolved.rows[1]
                 mask   == [i \in 1..Len(vals) |-> vals[i] # NaN]
                 spikes1 == BoolIndex(spikes, mask)
                 values1 == BoolIndex(vals, mask)
             IN  Arr1(BoolIndex(spikes1,
                        [i \in 1..Len(values1) |->
                            get_comp_func(comp_type, values1[i], data_threshold)]))

\* ------------------------------------------------------------------- Epocher
\* utils/data.py restrict_range with both bounds given and no reset: the data
\* values v with min_value <= v <= max_value, in input order.
restrict_range(data, min_value, max_value) ==
    BoolIndex(data, [i \in 1..Len(data) |->
                        data[i] >= min_value /\ data[i] <= max_value])

\* Mutant of epoch_spikes_by_event: the trials keep absolute spike times.
epoch_spikes_by_event_absolute(spikes, events, window) ==
    [ind \in 1..Len(events) |->
        restrict_range(spikes, events[ind] + window[1], events[ind] + window[2])]

\* trials.py epoch_spikes_by_event: one trial per event, in event order
\* (window[1], window[2] are python's window[0], window[1]).
epoch_spikes_by_event(spikes, events, window) ==
    [ind \in 1..Len(events) |->
        LET trial == restrict_range(spikes, events[ind] + window[1],
                                    events[ind] + window[2])
        IN  [k \in 1..Len(trial) |-> trial[k] - events[ind]]]

\* ------------------------------------------------------- Spike Train Sampler
\* Probabilities are counted in tenths: One is the probability 1.0.
One == 10

\* p_spiking as python sees it: a float, an int, or a 1-d array of floats.
PFloat(p) == [kind |-> "float", val |-> p]
PInt(p)   == [kind |-> "int", val |-> p]
PArray(a) == [kind |-> "array", val |-> a]

\* The draws a Bernoulli sample of each probability can give: probability 0
\* never spikes, probability 1 always does, anything between may do either.
Bernoulli(probs) ==
    {d \in [1..Len(probs) -> {0, 1}] :
        \A i \in 1..Len(probs) : /\ probs[i] = 0 => d[i] = 0
                                 /\ probs[i] = One => d[i] = 1}

\* dist.py sim_spiketrain_binom: the possible outcomes of one call.  Only a
\* python float passes isinstance(p_spiking, float); any other scalar goes on
\* to np.random.binomial, which with size=None returns a single draw.
sim_spiketrain_binom(p_spiking, n_samples) ==
    IF p_spiking.kind = "float" /\ n_samples = None
    THEN {[exc |-> "ValueError", out |-> None]}
    ELSE IF p_spiking.kind = "array"
    THEN {[exc |-> "none", out |-> Arr1(d)] : d \in Bernoulli(p_spiking.val)}
    ELSE IF n_samples = None
    THEN {[exc |-> "none", out |-> Arr0(d[1])] : d \in Bernoulli(<<p_spiking.val>>)}
    ELSE {[exc |-> "none", out |-> Arr1(d)] :
             d \in Bernoulli([i \in 1..n_samples[1] |-> p_spiking.val])}

\* prob.py sim_spiketrain_prob: the possible outcomes of one call.  A python
\* int is not a float, so it is taken as the probs array and probs.shape
\* fails with AttributeError.
sim_spiketrain_prob(p_spiking, n_samples) ==
    IF p_spiking.kind = "float"
    THEN IF n_samples # None
         THEN {[exc |-> "none", out |-> Arr1(d)] :
                  d \in Bernoulli([i \in 1..n_samples[1] |-> p_spiking.val])}
         ELSE {[exc |-> "ValueError", out |-> None]}
    ELSE IF p_spiking.kind = "int"
    THEN {[exc |-> "AttributeError", out |-> None]}
    ELSE {[exc |-> "none", out |-> Arr1(d)] : d \in Bernoulli(p_spiking.val)}

\* ------------------------------------------------- Range Eraser / Reinstater

\* Mutant of drop_range_loop: a later range is not shifted by the length
\* already dropped.
RECURSIVE drop_range_loop_unshifted(_, _, _, _, _)
drop_range_loop_unshifted(spikes, time_range, k, total_len, check_empty) ==
    IF k > Len(time_range) THEN [out |-> spikes, raised |-> FALSE]
    ELSE LET trange == time_range[k]
         IN  IF check_empty
                  /\ get_range(spikes, Some(trange[1]), Some(trange[2]), None) # <<>>
             THEN [out |-> <<>>, raised |-> TRUE]
             ELSE LET tlen == trange[2] - trange[1]
                      kept == get_range(spikes, None, Some(trange[1]), None)
                                  \o get_range(spikes, Some(trange[2]), None, Some(tlen))
                  IN  drop_range_loop_unshifted(kept, time_range, k + 1,
                                                total_len + tlen, check_empty)

\* extract.py drop_range, lines 422-438: the loop over the ranges from range
\* number k on, with the spikes and total_len as they stand.  time_range is
\* the list np.array(time_range, ndmin=2) iterates over (a single range is a
\* list of one).  The result is [out, raised]: raised when the check_empty
\* assertion fails.
RECURSIVE drop_range_loop(_, _, _, _, _)
drop_range_loop(spikes, time_range, k, total_len, check_empty) ==
    IF k > Len(time_range) THEN [out |-> spikes, raised |-> FALSE]
    ELSE LET given  == time_range[k]
             trange == IF total_len > 0
                       THEN <<given[1] - total_len, given[2] - total_len>>
                       ELSE given
         IN  IF check_empty
                  /\ get_range(spikes, Some(trange[1]), Some(trange[2]), None) # <<>>
             THEN [out |-> <<>>, raised |-> TRUE]
             ELSE LET tlen == trange[2] - trange[1]
                      kept == get_range(spikes, None, Some(trange[1]), None)
                                  \o get_range(spikes, Some(trange[2]), None, Some(tlen))
                  IN  drop_range_loop(kept, time_range, k + 1,
                                      total_len + (trange[2] - trange[1]),
                                      check_empty)

\* Mutant of drop_range: the emptiness check is never made.
drop_range_unchecked(spikes, time_range, check_empty) ==
    drop_range_loop(spikes, time_range, 1, 0, FALSE)

\* extract.py drop_range: the loop from the first range, nothing dropped yet.
drop_range(spikes, time_range, check_empty) ==
    drop_range_loop(spikes, time_range, 1, 0, check_empty)

\* extract.py _reinstate_range_1d.
reinstate_range_1d(spikes, time_range) ==
    LET tlen  == time_range[2] - time_range[1]
        after == get_range(spikes, Some(time_range[1]), None, None)
    IN  get_range(spikes, None, Some(time_range[1]), None)
            \o [i \in 1..Len(after) |-> after[i] + tlen]

\* extract.py reinstate_range, lines 488-490: the loop over the ranges from
\* range number k on; rows is the atleast_2d working copy.  The row
\* assignment spikes[ind, :] = ... raises ValueError when the reinstated row
\* has another length than the row it replaces.
RECURSIVE reinstate_range_loop(_, _, _)
reinstate_range_loop(rows, time_range, k) ==
    IF k > Len(time_range) THEN [out |-> rows, raised |-> FALSE]
    ELSE LET new == [r \in 1..Len(rows) |-> reinstate_range_1d(rows[r], time_range[k])]
         IN  IF \E r \in 1..Len(rows) : Len(new[r]) # Len(rows[r])
             THEN [out |-> rows, raised |-> TRUE]
             ELSE reinstate_range_loop(new, time_range, k + 1)

\* extract.py reinstate_range for a 1-d or 2-d spikes array: the loop on the
\* atleast_2d copy, then np.squeeze.
reinstate_range(spikes, time_range) ==
    LET res == reinstate_range_loop(spikes.rows, time_range, 1)
    IN  IF res.raised THEN [out |-> spikes, raised |-> TRUE]
        ELSE [out |-> Squeeze([shape |-> <<NRows(spikes), NCols(spikes)>>,
                               rows  |-> res.out]),
              raised |-> FALSE]

\* ------------------------------------------------------ Spike-time simulator

\* utils/checks.py check_param_options: a ValueError unless the parameter is
\* one of the options (tests/utils/test_checks.py).
check_param_options(param, options) == param \in options

\* stats/generators.py poisson_generator: the spike trains it can yield, each
\* a strictly increasing sequence of times in [start_time, start_time + duration).
poisson_generator(duration, start_time) ==
    {t \in SeqsUpTo(start_time..(start_time + duration - 1), 0, duration) :
        \A i \in 1..(Len(t) - 1) : t[i] < t[i + 1]}

\* sim/utils.py refractory post-filter: a spike closer than the refractory
\* period to the last spike kept is removed.
RECURSIVE apply_refractory(_, _, _)
apply_refractory(times, refractory, kept) ==
    IF times = <<>> THEN kept
    ELSE IF kept # <<>> /\ Head(times) - kept[Len(kept)] < refractory
         THEN apply_refractory(Tail(times), refractory, kept)
         ELSE apply_refractory(Tail(times), refractory, Append(kept, Head(times)))

\* sim/utils.py refractory_times, the decorator of sim_spiketimes_poisson: the
\* post-filter runs on the generated times when a refractory period is given.
refractory_times(times, refractory) ==
    IF Truthy(refractory) THEN apply_refractory(times, refractory[1], <<>>)
    ELSE times

\* sim/times.py sim_spiketimes_poisson (decorated); drawn is the train the
\* generator yields in this call.
sim_spiketimes_poisson(rate, duration, start_time, refractory, drawn) ==
    refractory_times(drawn, refractory)

\* sim/times.py sim_spiketimes, line 43: the dispatched generator is called
\* with spike_param, duration and **kwargs only, so its refractory parameter
\* keeps its default, None.  kwargs is the optional start_time (default 0).
sim_spiketimes(spike_param, duration, method, refractory, kwargs, drawn) ==
    sim_spiketimes_poisson(spike_param, duration,
                           IF kwargs = None THEN 0 ELSE kwargs[1], None, drawn)

\* ---------------------------------------------------------------- actions

Init ==
    /\ op = "idle"
    /\ args = <<>>
    /\ ret = <<>>
    /\ exc = "none"
    /\ prev = <<>>

\* No threshold, a threshold of zero, and positive thresholds.
Thresholds == {None, Some(0), Some(1), Some(2)}

CallGetRange ==
    /\ op = "idle"
    /\ \E data \in SeqsUpTo(TimeVals, 0, MaxLen),
          lo \in {None} \cup {Some(t) : t \in TimeVals},
          hi \in {None} \cup {Some(t) : t \in TimeVals},
          reset \in {None} \cup {Some(t) : t \in 0..2} :
        /\ op' = "get_range"
        /\ args' = [data |-> data, min_value |-> lo, max_value |-> hi,
                    reset |-> reset]
        /\ ret' = get_range(data, lo, hi, reset)
        /\ exc' = "none"
    /\ prev' = <<>>

CallGetIndByTime ==
    /\ op = "idle"
    /\ \E times \in SeqsUpTo(TimeVals, 0, MaxLen), timepoint \in TimeVals,
          threshold \in Thresholds :
        /\ op' = "get_ind_by_time"
        /\ args' = [times |-> times, timepoint |-> timepoint,
                    threshold |-> threshold]
        /\ IF times = <<>>
           THEN ret' = <<>> /\ exc' = "ValueError"
           ELSE ret' = get_ind_by_time(times, timepoint, threshold)
                /\ exc' = "none"
    /\ prev' = <<>>

\* Non-decreasing time sequences (the data model's convention for times).
SortedSeqs(lo, hi) == {s \in SeqsUpTo(TimeVals, lo, hi) : IsSorted(s)}

\* Values arrays aligned with n time samples, one row (1-d) or two rows (2-d).
\* The functions only move values, so each sample is given a value of its own:
\* 10 * row + position.
ValueArrays(n) ==
    {Arr1([i \in 1..n |-> 10 + i]),
     Arr2(<<[i \in 1..n |-> 10 + i], [i \in 1..n |-> 20 + i]>>)}

CallGetIndsByTimes ==
    /\ op = "idle"
    /\ \E times \in SortedSeqs(1, MaxLen),
          timepoints \in SeqsUpTo(TimeVals, 0, MaxQ),
          threshold \in Thresholds, drop_null \in BOOLEAN :
        /\ op' = "get_inds_by_times"
        /\ args' = [times |-> times, timepoints |-> timepoints,
                    threshold |-> threshold, drop_null |-> drop_null]
        /\ ret' = get_inds_by_times(times, timepoints, threshold, drop_null)
        /\ exc' = "none"
    /\ prev' = <<>>

CallGetValueByTime ==
    /\ op = "idle"
    /\ \E times \in SeqsUpTo(TimeVals, 1, MaxLen), timepoint \in TimeVals,
          threshold \in Thresholds :
        \E values \in ValueArrays(Len(times)) :
            /\ op' = "get_value_by_time"
            /\ args' = [times |-> times, values |-> values,
                        timepoint |-> timepoint, threshold |-> threshold]
            /\ ret' = get_value_by_time(times, values, timepoint, threshold)
            /\ exc' = "none"
    /\ prev' = <<>>

CallGetValuesByTimes ==
    /\ op = "idle"
    /\ \E times \in SortedSeqs(1, MaxLen),
          timepoints \in SeqsUpTo(TimeVals, 0, MaxQ),
          threshold \in Thresholds, drop_null \in BOOLEAN :
        \E values \in ValueArrays(Len(times)) :
            /\ op' = "get_values_by_times"
            /\ args' = [times |-> times, values |-> values,
                        timepoints |-> timepoints, threshold |-> threshold,
                        drop_null |-> drop_null]
            /\ ret' = get_values_by_times(times, values, timepoints, threshold,
                                          drop_null)
            /\ exc' = "none"
    /\ prev' = <<>>

CallGetValuesByTimeRange ==
    /\ op = "idle"
    /\ \E times \in SeqsUpTo(TimeVals, 0, MaxLen), t_min \in TimeVals,
          t_max \in TimeVals :
        \E values \in ValueArrays(Len(times)) :
            /\ op' = "get_values_by_time_range"
            /\ args' = [times |-> times, values |-> values, t_min |-> t_min,
                        t_max |-> t_max]
            /\ ret' = get_values_by_time_range(times, values, t_min, t_max)
            /\ exc' = "none"
    /\ prev' = <<>>

\* A single range [start, stop] with start <= stop.
Ranges == {r \in SpikeVals \X SpikeVals : r[1] <= r[2]}

\* The lists of ranges: one range, or two.
RangeLists == {<<r>> : r \in Ranges} \cup {<<r, q>> : r \in Ranges, q \in Ranges}

\* Spike times, non-decreasing.
SpikeSeqs == {s \in SeqsUpTo(SpikeVals, 0, MaxLen) : IsSorted(s)}

CallDropRange ==
    /\ op = "idle"
    /\ \E spikes \in SpikeSeqs, time_range \in RangeLists, check_empty \in BOOLEAN :
        LET res == drop_range(spikes, time_range, check_empty)
        IN  /\ op' = "drop_range"
            /\ args' = [spikes |-> spikes, time_range |-> time_range,
                        check_empty |-> check_empty]
            /\ ret' = res.out
            /\ exc' = IF res.raised THEN "AssertionError" ELSE "none"
    /\ prev' = <<>>

CallReinstateRange ==
    /\ op = "idle"
    /\ \E spikes \in SpikeSeqs, time_range \in RangeLists :
        LET res == reinstate_range(Arr1(spikes), time_range)
        IN  /\ op' = "reinstate_range"
            /\ args' = [spikes |-> spikes, time_range |-> time_range]
            /\ ret' = res.out
            /\ exc' = IF res.raised THEN "ValueError" ELSE "none"
    /\ prev' = <<>>

\* reinstate_range(drop_range(spikes, r), r): the result of a drop_range call
\* that returned is given back to reinstate_range with the same range(s).
ReinstateAfterDrop ==
    /\ op = "drop_range"
    /\ exc = "none"
    /\ LET res == reinstate_range(Arr1(ret), args.time_range)
       IN  /\ op' = "reinstate_range"
           /\ args' = [spikes |-> ret, time_range |-> args.time_range]
           /\ ret' = res.out
           /\ exc' = IF res.raised THEN "ValueError" ELSE "none"
    /\ prev' = <<args>>

Methods == {"poisson", "binom"}

Refractories == {None, Some(1), Some(2)}

StartTimes == {None, Some(0), Some(1)}

Rates == {5}

CallSimSpiketimes ==
    /\ op = "idle"
    /\ \E spike_param \in Rates, duration \in 1..MaxT, method \in Methods,
          refractory \in Refractories, kwargs \in StartTimes :
        /\ op' = "sim_spiketimes"
        /\ args' = [spike_param |-> spike_param, duration |-> duration,
                    method |-> method, refractory |-> refractory,
                    start_time |-> kwargs]
        /\ IF ~check_param_options(method, {"poisson"})
           THEN ret' = <<>> /\ exc' = "ValueError"
           ELSE \E drawn \in poisson_generator(duration,
                                IF kwargs = None THEN 0 ELSE kwargs[1]) :
                    /\ ret' = sim_spiketimes(spike_param, duration, method,
                                             refractory, kwargs, drawn)
                    /\ exc' = "none"
    /\ prev' = <<>>

CallSimSpiketimesPoisson ==
    /\ op = "idle"
    /\ \E rate \in Rates, duration \in 1..MaxT, refractory \in Refractories,
          start_time \in {0, 1} :
        \E drawn \in poisson_generator(duration, start_time) :
            /\ op' = "sim_spiketimes_poisson"
            /\ args' = [rate |-> rate, duration |-> duration,
                        start_time |-> start_time, refractory |-> refractory]
            /\ ret' = sim_spiketimes_poisson(rate, duration, start_time,
                                             refractory, drawn)
            /\ exc' = "none"
    /\ prev' = <<>>

\* The threshold of threshold_spikes_by_times (a required number).
SpikeThresholds == {0, 1, 2}

CallThresholdSpikesByTimes ==
    /\ op = "idle"
    /\ \E spikes \in SeqsUpTo(TimeVals, 0, MaxLen), times \in SortedSeqs(1, MaxLen),
          threshold \in SpikeThresholds :
        /\ op' = "threshold_spikes_by_times"
        /\ args' = [spikes |-> spikes, times |-> times, threshold |-> threshold]
        /\ ret' = threshold_spikes_by_times(spikes, times, threshold)
        /\ exc' = "none"
    /\ prev' = <<>>

\* Strictly increasing time sequences.
StrictSeqs(lo, hi) ==
    {s \in SeqsUpTo(TimeVals, lo, hi) : \A i \in 1..(Len(s) - 1) : s[i] < s[i + 1]}

\* Data values of the stream the spikes are compared on, around DataThreshold.
StreamVals == {1, 2, 3}

DataThreshold == 2

CallThresholdSpikesByValues ==
    /\ op = "idle"
    /\ \E spikes \in StrictSeqs(0, MaxQ), times \in StrictSeqs(1, MaxLen),
          time_threshold \in {None, Some(0), Some(1)},
          comp_type \in {"greater", "less"} :
        \E values \in [1..Len(times) -> StreamVals] :
            /\ op' = "threshold_spikes_by_values"
            /\ args' = [spikes |-> spikes, times |-> times, values |-> values,
                        data_threshold |-> DataThreshold,
                        time_threshold |-> time_threshold,
                        comp_type |-> comp_type]
            /\ ret' = threshold_spikes_by_values(spikes, times, values,
                          DataThreshold, time_threshold, comp_type)
            /\ exc' = "none"
    /\ prev' = <<>>

\* Windows around an event: symmetric, after the event, before the event.
Windows == {<<-1, 1>>, <<0, 1>>, <<-2, 0>>}

CallEpochSpikesByEvent ==
    /\ op = "idle"
    /\ \E spikes \in SeqsUpTo(TimeVals, 0, MaxLen),
          events \in SeqsUpTo(TimeVals, 0, MaxQ), window \in Windows :
        /\ op' = "epoch_spikes_by_event"
        /\ args' = [spikes |-> spikes, events |-> events, window |-> window]
        /\ ret' = epoch_spikes_by_event(spikes, events, window)
        /\ exc' = "none"
    /\ prev' = <<>>

\* Probabilities given to the samplers: 0.0, 0.3 and 1.0.
ProbVals == {0, 3, One}

\* Calls with a scalar probability (n_samples absent or given) and calls with
\* a probability array (n_samples absent, as it is then unused).
TrainInputs ==
    ({PFloat(p) : p \in ProbVals} \cup {PInt(0), PInt(One)})
        \X ({None} \cup {Some(n) : n \in 1..MaxLen})
    \cup ({PArray(a) : a \in SeqsUpTo(ProbVals, 1, MaxLen)} \X {None})

CallSimSpiketrainBinom ==
    /\ op = "idle"
    /\ \E in \in TrainInputs :
        \E res \in sim_spiketrain_binom(in[1], in[2]) :
            /\ op' = "sim_spiketrain_binom"
            /\ args' = [p_spiking |-> in[1], n_samples |-> in[2]]
            /\ ret' = res.out
            /\ exc' = res.exc
    /\ prev' = <<>>

CallSimSpiketrainProb ==
    /\ op = "idle"
    /\ \E in \in TrainInputs :
        \E res \in sim_spiketrain_prob(in[1], in[2]) :
            /\ op' = "sim_spiketrain_prob"
            /\ args' = [p_spiking |-> in[1], n_samples |-> in[2]]
            /\ ret' = res.out
            /\ exc' = res.exc
    /\ prev' = <<>>

Next ==
    \/ CallGetRange
    \/ CallGetIndByTime
    \/ CallGetIndsByTimes
    \/ CallGetValueByTime
    \/ CallGetValuesByTimes
    \/ CallGetValuesByTimeRange
    \/ CallDropRange
    \/ CallReinstateRange
    \/ ReinstateAfterDrop
    \/ CallSimSpiketimes
    \/ CallSimSpiketimesPoisson
    \/ CallThresholdSpikesByTimes
    \/ CallThresholdSpikesByValues
    \/ CallEpochSpikesByEvent
    \/ CallSimSpiketrainBinom
    \/ CallSimSpiketrainProb

Spec == Init /\ [][Next]_vars

\* ------------------------------------------------------------------ claims

\* The smallest distance |times[i] - tp| over a non-empty time sequence.
MinDist(times, tp) ==
    CHOOSE d \in {Abs(times[i] - tp) : i \in 1..Len(times)} :
        \A i \in 1..Len(times) : d <= Abs(times[i] - tp)

\* C1: for every given threshold t >= 0, t = 0 included, get_ind_by_time
\* returns -1 whenever the smallest distance to tp exceeds t, and
\* get_value_by_time then returns NaN.
C1_ThresholdNull ==
    /\ (op = "get_ind_by_time" /\ exc = "none" /\ args.threshold # None
            /\ MinDist(args.times, args.timepoint) > args.threshold[1])
        => ret = -1
    /\ (op = "get_value_by_time" /\ args.threshold # None
            /\ MinDist(args.times, args.timepoint) > args.threshold[1])
        => ret = Arr0(NaN)

\* C6: with no threshold, get_ind_by_time returns an index at minimal distance
\* to tp, the lowest such index; for a tp that is a member of times the
\* element at the returned index equals tp.
C6_NearestLowestIndex ==
    (op = "get_ind_by_time" /\ exc = "none" /\ args.threshold = None) =>
        LET times == args.times
            tp    == args.timepoint
            dist(i) == Abs(times[i] - tp)
        IN  /\ ret \in 0..(Len(times) - 1)
            /\ \A j \in 1..Len(times) : dist(ret + 1) <= dist(j)
            /\ \A j \in 1..ret : dist(j) > dist(ret + 1)
            /\ (\E j \in 1..Len(times) : times[j] = tp) => times[ret + 1] = tp

\* C6 witness: two different samples are equally near to tp, and the lower
\* index is returned.
C6_Witness ==
    /\ op = "get_ind_by_time" /\ exc = "none" /\ args.threshold = None
    /\ \E j \in (ret + 2)..Len(args.times) :
          /\ args.times[j] # args.times[ret + 1]
          /\ Abs(args.times[j] - args.timepoint)
                = Abs(args.times[ret + 1] - args.timepoint)

C9_RangeReset ==
    op = "get_range" =>
        LET lo == args.min_value
            hi == args.max_value
            r  == IF args.reset = None THEN 0 ELSE args.reset[1]
            InRange(x) == (lo = None \/ lo[1] <= x) /\ (hi = None \/ x <= hi[1])
            sel  == SelectSeq(args.data, InRange)
            mask == create_mask(args.data, lo, hi)
            bare == get_range(args.data, lo, hi, None)
        IN  /\ Len(mask) = Len(args.data)
            /\ \A i \in 1..Len(args.data) : mask[i] <=> InRange(args.data[i])
            /\ ret = [i \in 1..Len(sel) |-> sel[i] - r]
            /\ bare = sel
            /\ (args.reset = None \/ args.reset = Some(0)) => ret = sel

\* C9 witness: both bounds given, an element on the lower bound kept, another
\* element left out, and a non-zero reset applied.
C9_Witness ==
    /\ op = "get_range"
    /\ args.min_value # None /\ args.max_value # None /\ Truthy(args.reset)
    /\ \E i \in 1..Len(args.data) : args.data[i] = args.min_value[1]
    /\ ret # <<>>
    /\ Len(ret) < Len(args.data)

\* C10: get_values_by_time_range returns (times', values') made of exactly the
\* positions i with t_min <= times[i] <= t_max, in original order; both have
\* the same length and values'[k] is the value paired with times'[k].
C10_TimeRangePairs ==
    op = "get_values_by_time_range" =>
        LET times  == args.times
            values == args.values
            sel    == {i \in 1..Len(times) : args.t_min <= times[i] /\ times[i] <= args.t_max}
            nth(k) == CHOOSE i \in sel : Cardinality({j \in sel : j <= i}) = k
        IN  /\ Len(ret[1]) = Cardinality(sel)
            /\ NCols(ret[2]) = Len(ret[1])
            /\ NDim(ret[2]) = NDim(values)
            /\ NRows(ret[2]) = NRows(values)
            /\ \A k \in 1..Len(ret[1]) :
                  /\ ret[1][k] = times[nth(k)]
                  /\ \A r \in 1..NRows(values) :
                        ret[2].rows[r][k] = values.rows[r][nth(k)]

\* C10 witness: two-row values, two samples, the one kept lies on t_max.
C10_Witness ==
    /\ op = "get_values_by_time_range"
    /\ NDim(args.values) = 2
    /\ Len(args.times) = 2
    /\ Len(ret[1]) = 1
    /\ ret[1][1] = args.t_max

\* Whether no spike lies inside any of the listed ranges, bounds inclusive.
SpikeFree(spikes, ranges) ==
    \A i \in 1..Len(spikes), k \in 1..Len(ranges) :
        ~(ranges[k][1] <= spikes[i] /\ spikes[i] <= ranges[k][2])

\* Whether the listed ranges ascend without overlapping.
Ascending(ranges) ==
    \A k \in 1..(Len(ranges) - 1) : ranges[k][2] <= ranges[k + 1][1]

\* The summed length of the listed ranges that end before time s.
RECURSIVE LengthBefore(_, _)
LengthBefore(ranges, s) ==
    IF ranges = <<>> THEN 0
    ELSE (IF Head(ranges)[2] < s THEN Head(ranges)[2] - Head(ranges)[1] ELSE 0)
             + LengthBefore(Tail(ranges), s)

\* C2: for sorted spikes and a single spike-free range r = [start, stop],
\* reinstate_range(drop_range(spikes, r), r) returns a sequence equal to
\* spikes, element for element and with the same length.
C2_RoundTrip ==
    (op = "reinstate_range" /\ Len(prev) = 1 /\ Len(prev[1].time_range) = 1
        /\ SpikeFree(prev[1].spikes, prev[1].time_range))
    => (exc = "none" /\ ret = Arr1(prev[1].spikes))

\* C2 (support): in the same round trip no call raises, the spike times
\* themselves are recovered, and only a lone spike changes the shape of the
\* result (np.squeeze makes it 0-d).
C2_RoundTripData ==
    (op = "reinstate_range" /\ Len(prev) = 1 /\ Len(prev[1].time_range) = 1
        /\ SpikeFree(prev[1].spikes, prev[1].time_range))
    => /\ exc = "none"
       /\ ret.rows[1] = prev[1].spikes
       /\ (Len(prev[1].spikes) # 1 => ret = Arr1(prev[1].spikes))
       /\ (Len(prev[1].spikes) = 1 => ret = Arr0(prev[1].spikes[1]))

\* C3: for an ascending, non-overlapping list of spike-free ranges in original
\* time coordinates, drop_range returns every spike s as s minus the summed
\* length of the listed ranges that end before s; the spikes after the last
\* range are shifted by the sum of all range lengths.
C3_CumulativeShift ==
    (op = "drop_range" /\ Ascending(args.time_range)
        /\ SpikeFree(args.spikes, args.time_range))
    => /\ exc = "none"
       /\ ret = [i \in 1..Len(args.spikes) |->
                    args.spikes[i] - LengthBefore(args.time_range, args.spikes[i])]

\* C3 witness: two ranges of positive length are dropped with the emptiness
\* check on, and a spike after both comes out shifted by both lengths.
C3_Witness ==
    /\ op = "drop_range" /\ exc = "none" /\ args.check_empty
    /\ Len(args.time_range) = 2
    /\ Ascending(args.time_range)
    /\ \A k \in 1..2 : args.time_range[k][1] < args.time_range[k][2]
    /\ Len(args.spikes) >= 1
    /\ args.spikes[Len(args.spikes)] > args.time_range[2][2]
    /\ ret[Len(ret)] = args.spikes[Len(args.spikes)]
                          - (args.time_range[1][2] - args.time_range[1][1])
                          - (args.time_range[2][2] - args.time_range[2][1])

\* C4: when sim_spiketimes is called with a refractory value, the refractory
\* post-filter is applied: every two consecutive returned spike times are at
\* least refractory apart.
C4_RefractoryApplied ==
    (op = "sim_spiketimes" /\ exc = "none" /\ args.refractory # None)
    => \A i \in 1..(Len(ret) - 1) : ret[i + 1] - ret[i] >= args.refractory[1]

\* C4 (support): called directly, the decorated generator does keep the
\* spikes at least refractory apart.
C4_DirectCallFiltered ==
    (op = "sim_spiketimes_poisson" /\ args.refractory # None)
    => \A i \in 1..(Len(ret) - 1) : ret[i + 1] - ret[i] >= args.refractory[1]

\* Whether python's a[0] exists for array a (a 0-d array and an empty first
\* axis raise IndexError).
HasFirst(a) == NDim(a) >= 1 /\ a.shape[1] >= 1

\* python's a[0]: the first element of a 1-d array, the first row of a 2-d one.
First(a) == IF NDim(a) = 1 THEN Arr0(a.rows[1][1]) ELSE Arr1(a.rows[1])

At(a, r, j, nrows, nq) ==
    IF nrows > 1 /\ nq = 1 THEN a.rows[1][r] ELSE a.rows[r][j]

\* The lowest index (1-based) at minimal distance to tp.
Nearest(times, tp) ==
    CHOOSE i \in 1..Len(times) :
        /\ Abs(times[i] - tp) = MinDist(times, tp)
        /\ \A j \in 1..(i - 1) : Abs(times[j] - tp) > MinDist(times, tp)

\* C8: get_values_by_times with drop_null=False returns one position per
\* query; position j holds the value(s) at the nearest time index when query
\* j is within threshold and NaN, in every row, when it is not.
C8_NullFill ==
    (op = "get_values_by_times" /\ ~args.drop_null)
    => LET nq    == Len(args.timepoints)
           nrows == NRows(args.values)
       IN  /\ NRows(ret) * NCols(ret) = nrows * nq
           /\ \A j \in 1..nq, r \in 1..nrows :
                 LET tp     == args.timepoints[j]
                     within == args.threshold = None
                                 \/ MinDist(args.times, tp) <= args.threshold[1]
                 IN  At(ret, r, j, nrows, nq)
                        = IF within
                          THEN args.values.rows[r][Nearest(args.times, tp)]
                          ELSE NaN

\* C8 (support): the same statement for the thresholds python takes as given
\* (none, or a positive one).
C8_NullFillPositive ==
    (op = "get_values_by_times" /\ ~args.drop_null
        /\ (args.threshold = None \/ Truthy(args.threshold)))
    => C8_NullFill

RECURSIVE FlatRows(_)
FlatRows(rows) == IF rows = <<>> THEN <<>> ELSE Head(rows) \o FlatRows(Tail(rows))

\* C12: threshold_spikes_by_values returns, in original order, exactly the
\* spikes whose nearest time sample is within time_threshold (when one is
\* given) and whose value at that sample is strictly greater (comp_type
\* 'greater') or strictly less ('less') than data_threshold.
C12_ValueThreshold ==
    op = "threshold_spikes_by_values" =>
        LET Keep(s) ==
                /\ (args.time_threshold = None
                      \/ MinDist(args.times, s) <= args.time_threshold[1])
                /\ LET v == args.values[Nearest(args.times, s)]
                   IN  IF args.comp_type = "greater" THEN v > args.data_threshold
                       ELSE v < args.data_threshold
        IN  FlatRows(ret.rows) = SelectSeq(args.spikes, Keep)

\* C12 (support): the same statement for the time thresholds python takes as
\* given (none, or a positive one); a single spike comes back as a 2-d array
\* of shape (1, 1) or (0, 1), any other number of spikes as a 1-d array.
C12_ValueThresholdPositive ==
    (op = "threshold_spikes_by_values"
        /\ (args.time_threshold = None \/ Truthy(args.time_threshold)))
    => /\ C12_ValueThreshold
       /\ NDim(ret) = IF Len(args.spikes) = 1 THEN 2 ELSE 1

\* C13: epoch_spikes_by_event returns exactly len(events) trials; trial i holds
\* exactly the spikes s with events[i] + window[0] <= s <= events[i] + window[1],
\* each as s - events[i], in spike input order, whatever the numeric order of
\* the events; a window with no spikes gives an empty trial, not an error.
C13_EpochByEvent ==
    op = "epoch_spikes_by_event" =>
        /\ exc = "none"
        /\ Len(ret) = Len(args.events)
        /\ \A i \in 1..Len(args.events) :
              LET event == args.events[i]
                  InWindow(s) == /\ event + args.window[1] <= s
                                 /\ s <= event + args.window[2]
                  kept == SelectSeq(args.spikes, InWindow)
              IN  /\ Len(ret[i]) = Len(kept)
                  /\ \A k \in 1..Len(kept) : ret[i][k] = kept[k] - event

C13_Witness ==
    /\ op = "epoch_spikes_by_event"
    /\ Len(args.events) = 2
    /\ args.events[1] > args.events[2]
    /\ args.events[2] > 0
    /\ ret[1] = <<>>
    /\ Len(ret[2]) = 2
    /\ ret[2][1] > ret[2][2]

\* C14: sim_spiketrain_binom and sim_spiketrain_prob fail with ValueError and
\* return no spike train whenever p_spiking is a scalar probability (a float,
\* or an integer scalar such as 0 or 1) and n_samples is None.
C14_ScalarNeedsNSamples ==
    (op \in {"sim_spiketrain_binom", "sim_spiketrain_prob"}
        /\ args.p_spiking.kind \in {"float", "int"}
        /\ args.n_samples = None)
    => exc = "ValueError" /\ ret = None

\* C14 (support): for a python float without n_samples both functions raise
\* ValueError; an integer scalar without n_samples gets a single draw from
\* sim_spiketrain_binom and an AttributeError from sim_spiketrain_prob.
C14_FloatNeedsNSamples ==
    (op \in {"sim_spiketrain_binom", "sim_spiketrain_prob"} /\ args.n_samples = None)
    => /\ args.p_spiking.kind = "float" => exc = "ValueError" /\ ret = None
       /\ args.p_spiking.kind = "int" =>
             IF op = "sim_spiketrain_binom"
             THEN exc = "none" /\ ret = Arr0(IF args.p_spiking.val = One THEN 1 ELSE 0)
             ELSE exc = "AttributeError" /\ ret = None

\* C15: drop_range with check_empty=True fails with an assertion error, and
\* returns nothing, if and only if some input spike lies inside one of the
\* listed ranges (bounds inclusive, original time coordinates), for a single
\* range and for every range of an ascending non-overlapping list.
C15_EmptyCheck ==
    (op = "drop_range" /\ args.check_empty /\ Ascending(args.time_range))
    => /\ (exc = "AssertionError") <=> ~SpikeFree(args.spikes, args.time_range)
       /\ exc \in {"AssertionError", "none"}
       /\ exc = "AssertionError" => ret = <<>>

\* C15 witness: the first of two ascending ranges has positive length and no
\* spike, a spike lies inside the second, and the call fails.
C15_Witness ==
    /\ op = "drop_range" /\ args.check_empty
    /\ Len(args.time_range) = 2
    /\ Ascending(args.time_range)
    /\ args.time_range[1][1] < args.time_range[1][2]
    /\ SpikeFree(args.spikes, <<args.time_range[1]>>)
    /\ ~SpikeFree(args.spikes, <<args.time_range[2]>>)
    /\ exc = "AssertionError"

\* Whether every element of s is non-negative.
NonNegative(s) == \A i \in 1..Len(s) : s[i] >= 0

\* C16: for sorted non-negative spikes and a single range [start, stop] with
\* 0 <= start <= stop, the outputs of drop_range and of reinstate_range are
\* sorted and non-negative, with check_empty=False also when spikes lie inside
\* the range or on its bounds, and no input spike appears twice in the output.
C16_SortedNoDuplicate ==
    /\ (op = "drop_range" /\ Len(args.time_range) = 1 /\ exc = "none")
       => /\ IsSorted(ret)
          /\ NonNegative(ret)
          /\ Len(ret) <= Len(args.spikes)
    /\ (op = "reinstate_range" /\ Len(args.time_range) = 1 /\ exc = "none")
       => /\ IsSorted(ret.rows[1])
          /\ NonNegative(ret.rows[1])
          /\ Len(ret.rows[1]) = Len(args.spikes)

\* C16 (support): what is returned is always sorted and non-negative; the
\* output of drop_range holds a spike twice exactly when the range has zero
\* length and a spike lies on it, and reinstate_range returns nothing (the
\* row assignment raises ValueError) exactly when a spike lies on start.
C16_SortedNonNegative ==
    /\ (op = "drop_range" /\ Len(args.time_range) = 1 /\ exc = "none")
       => /\ IsSorted(ret)
          /\ NonNegative(ret)
          /\ (Len(ret) > Len(args.spikes)) <=>
                /\ args.time_range[1][1] = args.time_range[1][2]
                /\ \E i \in 1..Len(args.spikes) :
                      args.spikes[i] = args.time_range[1][1]
    /\ (op = "reinstate_range" /\ Len(args.time_range) = 1)
       => /\ (exc = "ValueError") <=>
                \E i \in 1..Len(args.spikes) : args.spikes[i] = args.time_range[1][1]
          /\ exc = "none" => /\ IsSorted(ret.rows[1])
                             /\ NonNegative(ret.rows[1])
                             /\ Len(ret.rows[1]) = Len(args.spikes)

\* C17: for an ascending, non-overlapping list L of two spike-free ranges in
\* original time coordinates, reinstate_range(drop_range(spikes, L), L) with
\* the same list L returns the original spikes.
C17_ListRoundTrip ==
    (op = "reinstate_range" /\ Len(prev) = 1 /\ Len(prev[1].time_range) = 2
        /\ Ascending(prev[1].time_range)
        /\ SpikeFree(prev[1].spikes, prev[1].time_range))
    => (exc = "none" /\ ret = Arr1(prev[1].spikes))

\* C17 (support): in that round trip no call raises and the spike times are
\* recovered element for element; only a lone spike changes the shape of the
\* result (np.squeeze makes it 0-d).
C17_ListRoundTripData ==
    (op = "reinstate_range" /\ Len(prev) = 1 /\ Len(prev[1].time_range) = 2
        /\ Ascending(prev[1].time_range)
        /\ SpikeFree(prev[1].spikes, prev[1].time_range))
    => /\ exc = "none"
       /\ ret.rows[1] = prev[1].spikes
       /\ (Len(prev[1].spikes) # 1 => ret = Arr1(prev[1].spikes))
       /\ (Len(prev[1].spikes) = 1 => ret = Arr0(prev[1].spikes[1]))

\* C17 (support): a round trip over a descending list of two spike-free ranges
\* of positive length that does not give the spikes back.
C17_DescendingLost ==
    /\ op = "reinstate_range" /\ Len(prev) = 1 /\ Len(prev[1].time_range) = 2
    /\ prev[1].time_range[2][2] < prev[1].time_range[1][1]
    /\ \A k \in 1..2 : prev[1].time_range[k][1] < prev[1].time_range[k][2]
    /\ SpikeFree(prev[1].spikes, prev[1].time_range)
    /\ (exc # "none" \/ ret.rows[1] # prev[1].spikes)

====
